---- MODULE Spec2Model ----
(***************************************************************************)
(* The DeepL usage exporter: NewDeepLCollector, Collect and fetchUsage.    *)
(*                                                                         *)
(* Strings the code inspects (the API key) are sequences of one-character  *)
(* strings.  A response body and an error message are sequences of tokens. *)
(* float64 values are exact fractions [num, den] in lowest terms.          *)
(* A Collect invocation is a process with a position pc[s]: it blocks in   *)
(* client.Do, in io.ReadAll and in each of its three channel sends.        *)
(***************************************************************************)
EXTENDS Integers, Sequences, FiniteSets, TLC

\* ---------------------------------------------------------------- bounds
\* The longest api key NewDeepLCollector is given under SpecKeys.
MaxKeyLen == 4
\* The largest character_count / character_limit the upstream reports.
MaxChars == 2
\* The seconds one Tick adds to an invocation's clock.
TickStep == 10
\* The Collect invocations of one collector that may overlap.
NumScrapes == 2

\* ------------------------------------------------------ program constants
defaultTimeout == 10
StatusOK == 200
proAPIURL == "https://api.deepl.com/v2/usage"
freeAPIURL == "https://api-free.deepl.com/v2/usage"

\* ------------------------------------------------------------------ keys
KeyChars == {":", "f", "x", "X", "%"}

RECURSIVE SeqsUpTo(_, _)
SeqsUpTo(S, n) ==
  IF n = 0 THEN {<<>>}
  ELSE LET shorter == SeqsUpTo(S, n - 1)
       IN  shorter \cup {Append(q, c) : q \in shorter, c \in S}

AllKeys == SeqsUpTo(KeyChars, MaxKeyLen)
SomeKeys == {<<"x", "%", ":", "f", "x">>, <<"x", "%">>}
OneKey == {<<"x", "%", ":", "f", "x">>}

\* The first n elements of q (all of q when it is shorter).
Take(q, n) == [i \in 1..(IF n < Len(q) THEN n ELSE Len(q)) |-> q[i]]

\* ---------------------------------------------------------------- tokens
Tok(t, key, kind, num) == [t |-> t, key |-> key, kind |-> kind, num |-> num]
Text(str) == Tok("text", str, "", 0)
Num(n) == Tok("num", "", "int", n)
LBrace == Tok("{", "", "", 0)
RBrace == Tok("}", "", "", 0)
Field(key, v) == Tok("field", key, v.kind, v.num)

Absent == [kind |-> "absent", num |-> 0]
Null == [kind |-> "null", num |-> 0]
Str == [kind |-> "string", num |-> 0]
Int64(n) == [kind |-> "int", num |-> n]

\* ------------------------------------------------------ upstream replies
FieldVals == {Absent, Null, Str} \cup {Int64(n) : n \in -1..MaxChars}

JsonBody(c, l) ==
  <<LBrace>>
  \o (IF c.kind = "absent" THEN <<>> ELSE <<Field("character_count", c)>>)
  \o (IF l.kind = "absent" THEN <<>> ELSE <<Field("character_limit", l)>>)
  \o <<RBrace>>

TextBody == <<Text("internal error")>>

Bodies == {JsonBody(c, l) : c \in FieldVals, l \in FieldVals} \cup {TextBody}
Statuses == {200, 201, 204, 500}

FewBodies == {JsonBody(Int64(1), Int64(2)), JsonBody(Int64(2), Int64(1))}
FewStatuses == {200, 500}

\* ------------------------------------------------------------- float64
Abs(n) == IF n < 0 THEN -n ELSE n

RECURSIVE GCD(_, _)
GCD(a, b) == IF b = 0 THEN a ELSE GCD(b, a % b)

Sign(n) == IF n < 0 THEN -1 ELSE IF n > 0 THEN 1 ELSE 0

\* The fraction n/d in lowest terms with a positive denominator; a zero
\* denominator is an IEEE infinity (or NaN for 0/0), not a fault.
Frac(n, d) ==
  IF d = 0 THEN [num |-> Sign(n), den |-> 0]
  ELSE LET g == GCD(Abs(n), Abs(d))
       IN  [num |-> (Sign(d) * n) \div g, den |-> Abs(d) \div g]

Float64(n) == Frac(n, 1)
FDiv(a, b) == Frac(a.num * b.den, a.den * b.num)
FMul(a, b) == Frac(a.num * b.num, a.den * b.den)

\* ---------------------------------------------------------- DeepLUsage
DeepLUsage(c, l) == [nil |-> FALSE, CharacterCount |-> c, CharacterLimit |-> l]
NilUsage == [nil |-> TRUE, CharacterCount |-> 0, CharacterLimit |-> 0]

\* -------------------------------------------------------- json.Unmarshal
SyntaxOK(b) ==
  /\ Len(b) >= 2
  /\ b[1] = LBrace
  /\ b[Len(b)] = RBrace
  /\ \A i \in 2..(Len(b) - 1) : b[i].t = "field"

UsageKeys == {"character_count", "character_limit"}

\* A JSON string cannot be stored in an int64 field.
Mistyped(b) ==
  \E i \in 2..(Len(b) - 1) : b[i].key \in UsageKeys /\ b[i].kind = "string"

\* The value the decoder leaves in the field tagged key: the last number
\* given for it; an absent key and a null leave the zero value.
RECURSIVE FieldValue(_, _, _)
FieldValue(b, key, i) ==
  IF i < 2 THEN 0
  ELSE IF b[i].t = "field" /\ b[i].key = key /\ b[i].kind = "int" THEN b[i].num
  ELSE FieldValue(b, key, i - 1)

UnmarshalStrict(b) ==
  IF SyntaxOK(b) /\ ~Mistyped(b)
     /\ \A k \in UsageKeys : \E i \in 2..(Len(b) - 1) : b[i].key = k
  THEN [ok |-> TRUE,
        usage |-> DeepLUsage(FieldValue(b, "character_count", Len(b) - 1),
                             FieldValue(b, "character_limit", Len(b) - 1))]
  ELSE [ok |-> FALSE, usage |-> NilUsage]

Unmarshal(b) ==
  IF SyntaxOK(b) /\ ~Mistyped(b)
  THEN [ok |-> TRUE,
        usage |-> DeepLUsage(FieldValue(b, "character_count", Len(b) - 1),
                             FieldValue(b, "character_limit", Len(b) - 1))]
  ELSE [ok |-> FALSE, usage |-> NilUsage]

\* ---------------------------------------------------------------- errors
NoErr == <<>>
ErrFetch(cause) == <<Text("failed to fetch usage: "), Text(cause)>>
ErrStatus(code, body) ==
  <<Text("API returned status "), Num(code), Text(": ")>> \o body
ErrRead == <<Text("failed to read response: "), Text("read error")>>
ErrParse == <<Text("failed to parse response: "), Text("json")>>

\* ----------------------------------------------------- fetchUsage, tail
\* What fetchUsage returns once client.Do has answered with `status` and
\* io.ReadAll has returned (data, readOk).
fetchUsageLax(status, data, readOk) ==
  IF status < 200 \/ status >= 300
  THEN [usage |-> NilUsage, err |-> ErrStatus(status, data), decoded |-> FALSE]
  ELSE IF ~readOk
  THEN [usage |-> NilUsage, err |-> ErrRead, decoded |-> FALSE]
  ELSE LET u == Unmarshal(data)
       IN  IF ~u.ok
           THEN [usage |-> NilUsage, err |-> ErrParse, decoded |-> TRUE]
           ELSE [usage |-> u.usage, err |-> NoErr, decoded |-> TRUE]

fetchUsage(status, data, readOk) ==
  IF status # StatusOK
  THEN [usage |-> NilUsage, err |-> ErrStatus(status, data), decoded |-> FALSE]
  ELSE IF ~readOk
  THEN [usage |-> NilUsage, err |-> ErrRead, decoded |-> FALSE]
  ELSE LET u == Unmarshal(data)
       IN  IF ~u.ok
           THEN [usage |-> NilUsage, err |-> ErrParse, decoded |-> TRUE]
           ELSE [usage |-> u.usage, err |-> NoErr, decoded |-> TRUE]

\* ----------------------------------------------------- NewDeepLCollector
FxSuffix == <<":", "f", "x">>

EndpointFor(key) ==
  IF Len(key) > 3 /\ SubSeq(key, Len(key) - 2, Len(key)) = FxSuffix
  THEN freeAPIURL
  ELSE proAPIURL

\* ------------------------------------------------------------- requests
AuthPrefix == <<"DeepL-Auth-Key ">>

\* A header built from the key with its escape characters dropped.
AuthorizationEscaped(key) ==
  AuthPrefix \o SelectSeq(key, LAMBDA c : c # "%")

\* fmt.Sprintf("DeepL-Auth-Key %s", c.apiKey)
Authorization(key) == AuthPrefix \o key

NewRequest(url, key) ==
  [method |-> "GET", url |-> url, Authorization |-> Authorization(key)]

\* ---------------------------------------------------------------- samples
Sample(name, value) == [name |-> name, value |-> value]

usagePercentClamped(usage) ==
  IF usage.CharacterLimit > 0
  THEN LET p == FMul(FDiv(Float64(usage.CharacterCount),
                          Float64(usage.CharacterLimit)), Float64(100))
       IN  IF p.num > 100 * p.den THEN Float64(100) ELSE p
  ELSE Float64(0)

usagePercent(usage) ==
  IF usage.CharacterLimit > 0
  THEN FMul(FDiv(Float64(usage.CharacterCount),
                 Float64(usage.CharacterLimit)), Float64(100))
  ELSE Float64(0)

\* ------------------------------------------------------------------ state
VARIABLES
  built,    \* whether NewDeepLCollector has returned the collector
  apiKey,   \* DeepLCollector.apiKey
  apiURL,   \* DeepLCollector.apiURL
  pc,       \* pc[s]: where Collect invocation s stands
  elapsed,  \* elapsed[s]: seconds since s derived its context and sent
  reqs,     \* reqs[s]: the requests s handed to client.Do, in order
  resp,     \* resp[s]: the status and body the upstream answered s with
  read,     \* read[s]: what io.ReadAll returned to s
  usage,    \* usage[s]: the usage fetchUsage returned to s
  err,      \* err[s]: the error fetchUsage returned to s
  decoded,  \* decoded[s]: whether s handed a body to json.Unmarshal
  ch        \* ch[s]: the samples s has sent on its channel, in order

vars == <<built, apiKey, apiURL, pc, elapsed, reqs, resp, read, usage, err,
          decoded, ch>>

collector == <<built, apiKey, apiURL>>

Scrapes == 1..NumScrapes

NoResp == [status |-> 0, body |-> <<>>]
NoRead == [ok |-> FALSE, data |-> <<>>]

Init ==
  /\ built = FALSE
  /\ apiKey = <<>>
  /\ apiURL = ""
  /\ pc = [s \in Scrapes |-> "idle"]
  /\ elapsed = [s \in Scrapes |-> 0]
  /\ reqs = [s \in Scrapes |-> <<>>]
  /\ resp = [s \in Scrapes |-> NoResp]
  /\ read = [s \in Scrapes |-> NoRead]
  /\ usage = [s \in Scrapes |-> NilUsage]
  /\ err = [s \in Scrapes |-> NoErr]
  /\ decoded = [s \in Scrapes |-> FALSE]
  /\ ch = [s \in Scrapes |-> <<>>]

NewDeepLCollector(key) ==
  /\ ~built
  /\ built' = TRUE
  /\ apiKey' = key
  /\ apiURL' = EndpointFor(key)
  /\ UNCHANGED <<pc, elapsed, reqs, resp, read, usage, err, decoded, ch>>

\* ---------------------------------------------------------------- Collect
\* Where Collect goes once fetchUsage has returned e as its error.
CollectAfterFetchAnyway(e) == "sendCount"

CollectAfterFetch(e) == IF e # NoErr THEN "done" ELSE "sendCount"

\* The usage Collect holds in its local variable.
UsageShared(s) == usage[1]

UsageOf(s) == usage[s]

\* fetchUsage returns to Collect: Collect logs an error and returns, or
\* goes on to its first send.
Returned(s, r, rd) ==
  /\ read' = [read EXCEPT ![s] = rd]
  /\ usage' = [usage EXCEPT ![s] = r.usage]
  /\ err' = [err EXCEPT ![s] = r.err]
  /\ decoded' = [decoded EXCEPT ![s] = r.decoded]
  /\ pc' = [pc EXCEPT ![s] = CollectAfterFetch(r.err)]

\* Collect starts: it derives the context, fetchUsage builds the request,
\* sets its header and calls client.Do.
Collect(s) ==
  /\ built
  /\ pc[s] = "idle"
  /\ pc' = [pc EXCEPT ![s] = "do"]
  /\ elapsed' = [elapsed EXCEPT ![s] = 0]
  /\ reqs' = [reqs EXCEPT ![s] = Append(@, NewRequest(apiURL, apiKey))]
  /\ UNCHANGED <<collector, resp, read, usage, err, decoded, ch>>

\* Time passes for an invocation that waits on the upstream.
Tick(s) ==
  /\ pc[s] \in {"do", "read"}
  /\ elapsed[s] < defaultTimeout
  /\ elapsed' = [elapsed EXCEPT ![s] = @ + TickStep]
  /\ UNCHANGED <<collector, pc, reqs, resp, read, usage, err, decoded, ch>>

\* client.Do fails (DNS, connection refused) and the request is sent again.
TransportErrorRetry(s) ==
  /\ pc[s] = "do"
  /\ elapsed[s] < defaultTimeout
  /\ reqs' = [reqs EXCEPT ![s] = Append(@, NewRequest(apiURL, apiKey))]
  /\ UNCHANGED <<collector, pc, elapsed, resp, read, usage, err, decoded, ch>>

\* client.Do fails (DNS, connection refused).
TransportError(s) ==
  /\ pc[s] = "do"
  /\ elapsed[s] < defaultTimeout
  /\ Returned(s, [usage |-> NilUsage, err |-> ErrFetch("transport"),
                  decoded |-> FALSE], NoRead)
  /\ UNCHANGED <<collector, elapsed, reqs, resp, ch>>

\* A deadline that covers the wait for the response only.
TimeoutDoOnly(s) ==
  /\ pc[s] = "do"
  /\ elapsed[s] >= defaultTimeout
  /\ Returned(s, [usage |-> NilUsage, err |-> ErrFetch("deadline exceeded"),
                  decoded |-> FALSE], NoRead)
  /\ UNCHANGED <<collector, elapsed, reqs, resp, ch>>

\* The deadline (the context's and the client's, both defaultTimeout) ends
\* client.Do, or ends io.ReadAll with what it has read.
Timeout(s) ==
  /\ elapsed[s] >= defaultTimeout
  /\ \/ /\ pc[s] = "do"
        /\ Returned(s, [usage |-> NilUsage,
                        err |-> ErrFetch("deadline exceeded"),
                        decoded |-> FALSE], NoRead)
     \/ /\ pc[s] = "read"
        /\ \E n \in 0..Len(resp[s].body) :
             LET data == Take(resp[s].body, n)
             IN  Returned(s, fetchUsage(resp[s].status, data, FALSE),
                          [ok |-> FALSE, data |-> data])
  /\ UNCHANGED <<collector, elapsed, reqs, resp, ch>>

\* client.Do returns the upstream's response: its status, and a body to read.
Response(s, status, body) ==
  /\ pc[s] = "do"
  /\ elapsed[s] < defaultTimeout
  /\ resp' = [resp EXCEPT ![s] = [status |-> status, body |-> body]]
  /\ pc' = [pc EXCEPT ![s] = "read"]
  /\ UNCHANGED <<collector, elapsed, reqs, read, usage, err, decoded, ch>>

\* io.ReadAll returns the whole body, or the part read before an error.
ReadAll(s, n, ok) ==
  /\ pc[s] = "read"
  /\ elapsed[s] < defaultTimeout
  /\ n \in 0..Len(resp[s].body)
  /\ ok => n = Len(resp[s].body)
  /\ LET data == Take(resp[s].body, n)
     IN  Returned(s, fetchUsage(resp[s].status, data, ok),
                  [ok |-> ok, data |-> data])
  /\ UNCHANGED <<collector, elapsed, reqs, resp, ch>>

Send(s, sample, next) ==
  /\ ch' = [ch EXCEPT ![s] = Append(@, sample)]
  /\ pc' = [pc EXCEPT ![s] = next]
  /\ UNCHANGED <<collector, elapsed, reqs, resp, read, usage, err, decoded>>

SendCount(s) ==
  /\ pc[s] = "sendCount"
  /\ Send(s, Sample("deepl_character_count",
                    Float64(UsageOf(s).CharacterCount)), "sendLimit")

\* The second sample built from the count.
SendLimitFromCount(s) ==
  /\ pc[s] = "sendLimit"
  /\ Send(s, Sample("deepl_character_limit",
                    Float64(UsageOf(s).CharacterCount)), "sendPercent")

SendLimit(s) ==
  /\ pc[s] = "sendLimit"
  /\ Send(s, Sample("deepl_character_limit",
                    Float64(UsageOf(s).CharacterLimit)), "sendPercent")

\* The last send; Collect returns after it.
SendPercent(s) ==
  /\ pc[s] = "sendPercent"
  /\ Send(s, Sample("deepl_character_usage_percent",
                    usagePercent(UsageOf(s))), "done")

\* ---------------------------------------------------------- specifications
\* One scrape, every upstream reply.
Next ==
  \/ \E key \in SomeKeys : NewDeepLCollector(key)
  \/ Collect(1)
  \/ Tick(1)
  \/ TransportError(1)
  \/ Timeout(1)
  \/ \E status \in Statuses, body \in Bodies : Response(1, status, body)
  \/ \E n \in 0..Len(resp[1].body), ok \in BOOLEAN : ReadAll(1, n, ok)
  \/ SendCount(1)
  \/ SendLimit(1)
  \/ SendPercent(1)

Spec == Init /\ [][Next]_vars

\* One scrape, every key.
NextKeys ==
  \/ ~built /\ \E key \in AllKeys : NewDeepLCollector(key)
  \/ Collect(1)
  \/ Tick(1)
  \/ TransportError(1)
  \/ Timeout(1)
  \/ \E status \in FewStatuses, body \in FewBodies : Response(1, status, body)
  \/ \E n \in 0..Len(resp[1].body), ok \in BOOLEAN : ReadAll(1, n, ok)
  \/ SendCount(1)
  \/ SendLimit(1)
  \/ SendPercent(1)

SpecKeys == Init /\ [][NextKeys]_vars

\* Scrapes of one collector, in sequence or interleaved.
NextScrapes ==
  \/ \E key \in OneKey : NewDeepLCollector(key)
  \/ \E s \in Scrapes :
       \/ Collect(s)
       \/ Tick(s)
       \/ TransportError(s)
       \/ Timeout(s)
       \/ \E status \in FewStatuses, body \in FewBodies :
            Response(s, status, body)
       \/ \E n \in 0..Len(resp[s].body), ok \in BOOLEAN : ReadAll(s, n, ok)
       \/ SendCount(s)
       \/ SendLimit(s)
       \/ SendPercent(s)

SpecScrapes == Init /\ [][NextScrapes]_vars

\* One scrape under the scheduling the runtime gives it: time passes, the
\* deadline fires, and the registry that called Collect drains its channel,
\* so an enabled send completes.  The upstream owes nothing: no fairness is
\* stated for Response, ReadAll or TransportError.
FairSpec ==
  /\ Spec
  /\ WF_vars(Tick(1))
  /\ WF_vars(Timeout(1))
  /\ WF_vars(SendCount(1))
  /\ WF_vars(SendLimit(1))
  /\ WF_vars(SendPercent(1))

\* ================================================================= claims
EndsWithFx(key) ==
  Len(key) >= 3 /\ SubSeq(key, Len(key) - 2, Len(key)) = FxSuffix

\* The samples an invocation at position p has sent so far.
SentBy(p) ==
  CASE p = "sendLimit" -> 1
    [] p = "sendPercent" -> 2
    [] p = "done" -> 3
    [] OTHER -> 0

Fetched(s) == pc[s] \in {"sendCount", "sendLimit", "sendPercent", "done"}

\* 100 * count / limit as an exact fraction p: p.num / p.den.
IsPercentOf(p, count, limit) ==
  IF limit <= 0 THEN p = [num |-> 0, den |-> 1]
  ELSE p.den > 0 /\ p.num * limit = 100 * count * p.den

HasKey(b, key) == \E i \in 1..Len(b) : b[i].t = "field" /\ b[i].key = key

\* C1: for every api_key ending in ":fx" (whatever its length) the collector's
\* apiURL is the free-tier URL, and for every other key it is the pro URL.
C1_EndpointBySuffix ==
  built => apiURL = (IF EndsWithFx(apiKey) THEN freeAPIURL ELSE proAPIURL)

\* C2: after a successful fetch Collect sends exactly three samples, in the
\* order count (raw), limit (raw), usage percent (derived), and nothing else:
\* at every position the channel holds exactly the samples due so far.
C2_ThreeSamplesInOrder ==
  \A s \in Scrapes :
    (Fetched(s) /\ ~usage[s].nil) =>
      /\ Len(ch[s]) = SentBy(pc[s])
      /\ \A i \in 1..Len(ch[s]) :
           /\ i = 1 => /\ ch[s][i].name = "deepl_character_count"
                       /\ ch[s][i].value =
                            [num |-> usage[s].CharacterCount, den |-> 1]
           /\ i = 2 => /\ ch[s][i].name = "deepl_character_limit"
                       /\ ch[s][i].value =
                            [num |-> usage[s].CharacterLimit, den |-> 1]
           /\ i = 3 => /\ ch[s][i].name = "deepl_character_usage_percent"
                       /\ IsPercentOf(ch[s][i].value, usage[s].CharacterCount,
                                      usage[s].CharacterLimit)

C2_Witness ==
  /\ pc[1] = "done"
  /\ usage[1] = DeepLUsage(1, 2)
  /\ Len(ch[1]) = 3
  /\ ch[1][3].value = [num |-> 50, den |-> 1]

\* C3: whenever fetchUsage fails (transport error, timeout, status other than
\* 200, body read error, malformed JSON) Collect has returned and has sent no
\* sample at all.
FetchFailed(s) ==
  \/ resp[s] = NoResp
  \/ resp[s].status # 200
  \/ ~read[s].ok
  \/ ~SyntaxOK(read[s].data)
  \/ Mistyped(read[s].data)

C3_NoSamplesOnFailure ==
  \A s \in Scrapes :
    /\ err[s] # NoErr => (pc[s] = "done" /\ ch[s] = <<>>)
    /\ (Fetched(s) /\ FetchFailed(s)) => (err[s] # NoErr /\ usage[s].nil)

C3_Witness ==
  /\ pc[1] = "done"
  /\ resp[1].status = 200
  /\ read[1].ok
  /\ resp[1].body = TextBody
  /\ err[1] = ErrParse
  /\ ch[1] = <<>>

\* C4: for a response whose status is not 200 (201 and 204 included)
\* fetchUsage returns no usage and the error "API returned status <code>:
\* <body>" with the status code and the body text as read, and never hands the
\* body to the decoder.
C4_StatusError ==
  \A s \in Scrapes :
    (Fetched(s) /\ resp[s] # NoResp /\ resp[s].status # 200) =>
      /\ usage[s].nil
      /\ ~decoded[s]
      /\ Len(err[s]) = 3 + Len(read[s].data)
      /\ err[s][1] = Text("API returned status ")
      /\ err[s][2] = Num(resp[s].status)
      /\ err[s][3] = Text(": ")
      /\ \A i \in 1..Len(read[s].data) : err[s][3 + i] = read[s].data[i]
      /\ read[s].ok => read[s].data = resp[s].body

C4_Witness ==
  /\ pc[1] = "done"
  /\ resp[1].status = 204
  /\ resp[1].body = JsonBody(Int64(1), Int64(2))
  /\ read[1].ok
  /\ err[1] # NoErr

\* C5: the usage percent sample is 0 exactly when character_limit <= 0, and
\* otherwise 100 * character_count / character_limit, above 100 included.
C5_UsagePercent ==
  \A s \in Scrapes :
    Len(ch[s]) = 3 =>
      IsPercentOf(ch[s][3].value, usage[s].CharacterCount,
                  usage[s].CharacterLimit)

C5_Witness ==
  /\ Len(ch[1]) = 3
  /\ usage[1] = DeepLUsage(2, 1)
  /\ ch[1][3].value = [num |-> 200, den |-> 1]

\* C6: every Collect invocation hands exactly one GET for the resolved
\* endpoint to the client, whatever the outcome of the fetch.
C6_OneRequest ==
  \A s \in Scrapes :
    /\ Len(reqs[s]) = (IF pc[s] = "idle" THEN 0 ELSE 1)
    /\ \A i \in 1..Len(reqs[s]) :
         reqs[s][i].method = "GET" /\ reqs[s][i].url = apiURL

C6_Witness ==
  /\ pc[1] = "done"
  /\ err[1] = ErrFetch("transport")
  /\ Len(reqs[1]) = 1

\* C7: every Collect invocation that has started eventually returns, whatever
\* the upstream does.
C7_CollectReturns == (pc[1] # "idle") ~> (pc[1] = "done")

C7_Witness ==
  /\ pc[1] = "done"
  /\ resp[1] # NoResp
  /\ elapsed[1] >= defaultTimeout
  /\ ~read[1].ok

\* C8: the samples of an invocation are those of its own response: three
\* samples decoded from the body it was answered with, or none when its own
\* fetch failed, whatever the other invocations were answered.
OwnSamples(s) ==
  IF FetchFailed(s) THEN <<>>
  ELSE LET b == resp[s].body
           c == FieldValue(b, "character_count", Len(b))
           l == FieldValue(b, "character_limit", Len(b))
       IN  <<Sample("deepl_character_count", Float64(c)),
             Sample("deepl_character_limit", Float64(l)),
             Sample("deepl_character_usage_percent",
                    IF l > 0 THEN Frac(100 * c, l) ELSE Float64(0))>>

C8_ScrapeIsolation ==
  \A s \in Scrapes :
    /\ ~Fetched(s) => ch[s] = <<>>
    /\ Fetched(s) => ch[s] = Take(OwnSamples(s), SentBy(pc[s]))

C8_Witness ==
  /\ pc[1] = "sendLimit"
  /\ pc[2] = "sendPercent"
  /\ resp[1].body # resp[2].body
  /\ ch[1] # <<>>
  /\ Len(ch[2]) = 2
  /\ ch[1][1] # ch[2][1]

\* C9: every request sent upstream carries the Authorization header
\* "DeepL-Auth-Key " followed by the api_key, character for character.
C9_AuthorizationVerbatim ==
  \A s \in Scrapes :
    \A i \in 1..Len(reqs[s]) :
      LET h == reqs[s][i].Authorization
      IN  /\ Len(h) = 1 + Len(apiKey)
          /\ h[1] = "DeepL-Auth-Key "
          /\ \A j \in 1..Len(apiKey) : h[1 + j] = apiKey[j]

C9_Witness ==
  /\ Len(reqs[1]) = 1
  /\ apiKey = <<"%", ":", "%", "x">>

====
